---- MODULE Spec2Model ----
(***************************************************************************)
(* A model of clean.py: the scan worker (ScanThread.run), the control      *)
(* thread's handlers of CleanerApp (scan_files, check_scan_queue,          *)
(* clean_files, handle_click, toggle_all, on_closing) and the file system  *)
(* they read and change.                                                   *)
(*                                                                         *)
(* A file name is a sequence of one-character strings, so that the matcher *)
(* (exact names, the compiled pattern, os.path.splitext) is computed the   *)
(* way the code computes it.  A path is written as the string the code     *)
(* would build with os.path.join; Parent and Name take it apart.           *)
(***************************************************************************)
EXTENDS Integers, Sequences, FiniteSets, TLC

\* The number of scan threads ever started in one behaviour.
MaxScans == 2

----------------------------------------------------------------------------
\* The rule set, CleanerApp.junk_files

junk_names ==
  << [kind |-> "str", text |-> <<".", "D", "S", "_", "S", "t", "o", "r", "e">>],
     [kind |-> "str", text |-> <<"d", "e", "s", "k", "t", "o", "p", ".", "i", "n", "i">>],
     [kind |-> "str", text |-> <<"T", "h", "u", "m", "b", "s", ".", "d", "b">>],
     [kind |-> "str", text |-> <<".", "z", "s", "h", "_", "h", "i", "s", "t", "o", "r", "y">>],
     [kind |-> "str", text |-> <<".", "v", "i", "m", "i", "n", "f", "o">>],
     [kind |-> "str", text |-> <<".", "l", "o", "c", "a", "l", "i", "z", "e", "d">>],
     \* re.compile(r'\.zcompdump-.*'): the literal prefix, then anything
     [kind |-> "re", text |-> <<".", "z", "c", "o", "m", "p", "d", "u", "m", "p", "-">>] >>

junk_extensions ==
  { <<".", "l", "o", "g">>, <<".", "t", "m", "p">>, <<".", "c", "a", "c", "h", "e">> }

junk_folders ==
  { <<"$", "R", "E", "C", "Y", "C", "L", "E", ".", "B", "I", "N">>,
    <<"C", "a", "c", "h", "e", "s">>,
    <<"L", "o", "g", "s">>,
    <<"C", "r", "a", "s", "h", "R", "e", "p", "o", "r", "t", "e", "r">>,
    <<"t", "m", "p">>,
    <<"t", "e", "m", "p">>,
    <<"l", "o", "g">>,
    <<".", "T", "r", "a", "s", "h">>,
    <<".", "f", "s", "e", "v", "e", "n", "t", "s", "d">>,
    <<".", "S", "p", "o", "t", "l", "i", "g", "h", "t", "-", "V", "1", "0", "0">>,
    <<"P", "h", "o", "t", "o", " ", "B", "o", "o", "t", "h", " ", "L", "i", "b", "r", "a", "r", "y">> }

junk_files ==
  [names |-> junk_names, extensions |-> junk_extensions, folders |-> junk_folders]

----------------------------------------------------------------------------
\* The matcher

\* pattern.match(filename) for the compiled pattern: the literal part must
\* be a prefix of filename; ".*" then matches whatever follows.
re_match(prefix, filename) ==
  /\ Len(filename) >= Len(prefix)
  /\ SubSeq(filename, 1, Len(prefix)) = prefix

matches_patterns(filename, patterns) ==
  \E k \in 1..Len(patterns) :
    IF patterns[k].kind = "str"
      THEN patterns[k].text = filename
      ELSE re_match(patterns[k].text, filename)

\* str.rfind('.') as a 1-based index, 0 when there is no dot.
rfind_dot(p) ==
  LET dots == {k \in 1..Len(p) : p[k] = "."}
  IN IF dots = {} THEN 0 ELSE CHOOSE k \in dots : \A j \in dots : j <= k

\* os.path.splitext(file)[1] for a name with no separator: the text from
\* the last dot on, unless only dots precede that dot (leading dots are
\* not an extension).
splitext_ext(p) ==
  LET d == rfind_dot(p)
  IN IF d > 0 /\ (\E k \in 1..(d - 1) : p[k] # ".")
       THEN SubSeq(p, d, Len(p))
       ELSE << >>

\* The test of ScanThread.run on a file name.
is_junk_file(file) ==
  \/ matches_patterns(file, junk_files.names)
  \/ splitext_ext(file) \in junk_files.extensions

\* The test of ScanThread.run on a folder name.
is_junk_folder(folder) == folder \in junk_files.folders

----------------------------------------------------------------------------
\* The file system under the scan path

scan_path == "a"

\* Every path that may exist, in the order a directory listing returns them.
ListOrder ==
  << "a", "a/docs", "a/docs/.DS_Store", "a/docs/Caches",
     "a/docs/Caches/x.log", "a/docs/Caches/sub" >>

Universe == {ListOrder[k] : k \in 1..Len(ListOrder)}

\* os.path.dirname, "" for the scan path itself
Parent(p) ==
  CASE p = "a/docs/.DS_Store"    -> "a/docs"
    [] p = "a/docs"              -> "a"
    [] p = "a/docs/Caches"       -> "a/docs"
    [] p = "a/docs/Caches/x.log" -> "a/docs/Caches"
    [] p = "a/docs/Caches/sub"   -> "a/docs/Caches"
    [] OTHER                     -> ""

\* os.path.basename
Name(p) ==
  CASE p = "a/docs/.DS_Store"    -> <<".", "D", "S", "_", "S", "t", "o", "r", "e">>
    [] p = "a/docs"              -> <<"d", "o", "c", "s">>
    [] p = "a/docs/Caches"       -> <<"C", "a", "c", "h", "e", "s">>
    [] p = "a/docs/Caches/x.log" -> <<"x", ".", "l", "o", "g">>
    [] p = "a/docs/Caches/sub"   -> <<"s", "u", "b">>
    [] OTHER                     -> <<"a">>

IsDirPath(p) == p \in {"a", "a/docs", "a/docs/Caches", "a/docs/Caches/sub"}

\* os.path.getsize of a file
FileSize(p) ==
  CASE p = "a/docs/.DS_Store"    -> 1
    [] p = "a/docs/Caches/x.log" -> 2
    [] OTHER                     -> 0

\* os.path.join(root, name): the path of the entry called name in root.
path_join(root, name) ==
  CHOOSE p \in Universe : Parent(p) = root /\ Name(p) = name

RECURSIVE IsBelow(_, _)
\* p lies strictly below the directory d.
IsBelow(p, d) ==
  /\ Parent(p) # ""
  /\ (Parent(p) = d \/ IsBelow(Parent(p), d))

\* A set of paths that can exist together: every entry's directory exists.
IsTree(S) == \A p \in S : Parent(p) = "" \/ Parent(p) \in S

\* os.scandir(top), split as os.walk splits it: the names of the
\* sub-directories and of the other entries.
ListDirs(top, files) ==
  LET Keep(p) == p \in files /\ Parent(p) = top /\ IsDirPath(p)
      kept == SelectSeq(ListOrder, Keep)
  IN [k \in 1..Len(kept) |-> Name(kept[k])]

ListFiles(top, files) ==
  LET Keep(p) == p \in files /\ Parent(p) = top /\ ~IsDirPath(p)
      kept == SelectSeq(ListOrder, Keep)
  IN [k \in 1..Len(kept) |-> Name(kept[k])]

RECURSIVE SumSizes(_)
SumSizes(S) ==
  IF S = {} THEN 0
  ELSE LET p == CHOOSE q \in S : TRUE IN FileSize(p) + SumSizes(S \ {p})

\* get_dir_size(path): the sizes of the files below path, leaving out those
\* whose size cannot be read.
get_dir_size(path, files, unread) ==
  SumSizes({p \in files : ~IsDirPath(p) /\ IsBelow(p, path) /\ p \notin unread})

----------------------------------------------------------------------------
\* The state

VARIABLES
  fs,           \* the paths that exist
  unremovable,  \* the paths whose removal the file system refuses
  abort_event,  \* CleanerApp.abort_event, shared with every ScanThread
  queue,        \* CleanerApp.queue, shared with every ScanThread
  threads,      \* the ScanThread objects ever started, in order
  scan_thread,  \* CleanerApp.scan_thread: an index of threads, 0 for None
  tree,         \* the rows of CleanerApp.tree, the result store
  scan_btn,     \* the state of the Scan button
  clean_btn,    \* the state of the Clean button
  status,       \* what CleanerApp.status_var shows
  timers,       \* the pending root.after(100, check_scan_queue) calls
  autoScan,     \* the root.after(100, scan_files) of __init__ is pending
  cpc,          \* where the control thread is inside check_scan_queue
  closed,       \* root.quit() was called: the main loop runs no handler
  scanIgnored,  \* history: some scan_files call returned at its first test
  lastBatch,    \* history: the turns of the clean_files call that has just
                \* returned, empty once another handler has run
  arg,          \* the argument of a call of is_junk_file or format_size
                \* taken by itself, outside the program's run
  ret           \* << >> before that call has returned, then its value

vars ==
  << fs, unremovable, abort_event, queue, threads, scan_thread, tree,
     scan_btn, clean_btn, status, timers, autoScan, cpc, closed,
     scanIgnored, lastBatch, arg, ret >>

\* The variables of a function taken by itself
fnVars == << arg, ret >>

ctlVars ==
  << scan_thread, tree, scan_btn, clean_btn, status, timers, autoScan, cpc,
     closed, scanIgnored, lastBatch >>

\* A message of the queue.  "scan" is not in the code's tuples: it records
\* which thread put the message.
Msg(type, path, size, count, t) ==
  [type |-> type, path |-> path, size |-> size, count |-> count, scan |-> t]

\* A ScanThread after start() and before run() has executed anything.  The
\* fields out, skipped, preCancelled and walkingAtCancel are history: the
\* messages the thread has put and the junk entries whose size or time it
\* could not read (both kept until the thread is dead), whether
\* abort_event was set when run() began, and whether abort_event was set
\* while run() was inside a directory.
NewThread ==
  [pc |-> "start", stack |-> << >>, root |-> "", dirs |-> << >>,
   files |-> << >>, i |-> 0, total_size |-> 0, file_count |-> 0,
   out |-> << >>, skipped |-> {}, preCancelled |-> FALSE,
   walkingAtCancel |-> FALSE]

\* threading.Thread.is_alive(), for a thread that was started
is_alive(t) == threads[t].pc # "dead"

----------------------------------------------------------------------------
\* ScanThread.run, one step at a time

\* self.queue.put(msg) by thread t, which goes on as the record next.
Put(t, msg, next) ==
  /\ queue' = Append(queue, msg)
  /\ threads' = [threads EXCEPT ![t] = [next EXCEPT !.out = Append(@, msg)]]

\* A mutant of Matched: the entry is not counted.
Matched_NotCounted(w, size) ==
  [w EXCEPT !.i = w.i + 1, !.total_size = w.total_size + size]

\* The thread's record after "total_size += size; file_count += 1", the
\* loop going on to its next entry.
Matched(w, size) ==
  [w EXCEPT !.i = w.i + 1,
            !.total_size = w.total_size + size,
            !.file_count = w.file_count + 1]

\* A mutant of Skipped: the exception is not caught inside the loop and
\* ends the walk.
Skipped_EndsWalk(w, full_path) ==
  [w EXCEPT !.pc = "finish", !.stack = << >>, !.root = "", !.dirs = << >>,
            !.files = << >>, !.i = 0, !.skipped = @ \cup {full_path}]

\* The thread's record after "except (OSError, PermissionError): continue",
\* the read of the size or of the time of full_path having failed: the
\* loop goes on to its next entry.
Skipped(w, full_path) ==
  [w EXCEPT !.i = w.i + 1, !.skipped = @ \cup {full_path}]

\* run() begins: total_size = 0, file_count = 0, os.walk(self.scan_path)
RunStart(t) ==
  /\ threads[t].pc = "start"
  /\ threads' = [threads EXCEPT ![t] =
                   [@ EXCEPT !.pc = "walk", !.stack = <<scan_path>>,
                             !.total_size = 0, !.file_count = 0,
                             !.preCancelled = abort_event]]
  /\ UNCHANGED << fnVars, fs, unremovable, abort_event, queue, ctlVars >>

\* The for statement asks os.walk for its next item.  os.walk first queues
\* the sub-directories of the directory it yielded last (the list dirs,
\* which the loop body never changes), then takes the next directory and
\* lists it; a directory it cannot list is passed over without a word.
WalkNext(t) ==
  LET w == threads[t]
      pending == [k \in 1..Len(w.dirs) |-> path_join(w.root, w.dirs[k])]
                   \o w.stack
  IN /\ w.pc = "walk"
     /\ IF pending = << >>
          THEN threads' = [threads EXCEPT ![t] =
                 [w EXCEPT !.pc = "finish", !.stack = << >>, !.root = "",
                           !.dirs = << >>, !.files = << >>, !.i = 0]]
          ELSE LET top == Head(pending) IN
               IF top \in fs
                 THEN threads' = [threads EXCEPT ![t] =
                        [w EXCEPT !.pc = "check", !.stack = Tail(pending),
                                  !.root = top, !.dirs = ListDirs(top, fs),
                                  !.files = ListFiles(top, fs), !.i = 0]]
                 ELSE threads' = [threads EXCEPT ![t] =
                        [w EXCEPT !.stack = Tail(pending), !.root = "",
                                  !.dirs = << >>, !.files = << >>, !.i = 0]]
     /\ UNCHANGED << fnVars, fs, unremovable, abort_event, queue, ctlVars >>

\* The head of the loop body: the abort test, then the progress message.
CheckAbort(t) ==
  LET w == threads[t] IN
  /\ w.pc = "check"
  /\ IF abort_event
       THEN Put(t, Msg("abort", "", 0, 0, t),
                [w EXCEPT !.pc = "finish", !.stack = << >>, !.root = "",
                          !.dirs = << >>, !.files = << >>, !.i = 0])
       ELSE Put(t, Msg("progress", w.root, 0, 0, t),
                [w EXCEPT !.pc = "dirs", !.i = 1])
  /\ UNCHANGED << fnVars, fs, unremovable, abort_event, ctlVars >>

\* One turn of "for folder in dirs[:]".  ok says whether os.path.getmtime
\* succeeds and unread which files get_dir_size cannot read the size of.
ScanFolder(t) ==
  LET w == threads[t] IN
  /\ w.pc = "dirs"
  /\ IF w.i > Len(w.dirs) \/ abort_event
       THEN /\ threads' = [threads EXCEPT ![t] = [w EXCEPT !.pc = "files", !.i = 1]]
            /\ UNCHANGED queue
       ELSE IF ~is_junk_folder(w.dirs[w.i])
         THEN /\ threads' = [threads EXCEPT ![t] = [w EXCEPT !.i = w.i + 1]]
              /\ UNCHANGED queue
         ELSE LET full_path == path_join(w.root, w.dirs[w.i]) IN
              \E ok \in {b \in BOOLEAN : b => full_path \in fs} :
              \E unread \in SUBSET {p \in fs : ~IsDirPath(p) /\ IsBelow(p, full_path)} :
                LET size == get_dir_size(full_path, fs, unread) IN
                IF ok
                  THEN Put(t, Msg("file", full_path, size, 0, t),
                           Matched(w, size))
                  ELSE /\ threads' = [threads EXCEPT ![t] = Skipped(w, full_path)]
                       /\ UNCHANGED queue
  /\ UNCHANGED << fnVars, fs, unremovable, abort_event, ctlVars >>

\* One turn of "for file in files".  ok says whether os.path.getsize and
\* os.path.getmtime both succeed.
ScanFile(t) ==
  LET w == threads[t] IN
  /\ w.pc = "files"
  /\ IF w.i > Len(w.files) \/ abort_event
       THEN /\ threads' = [threads EXCEPT ![t] = [w EXCEPT !.pc = "walk", !.i = 0]]
            /\ UNCHANGED queue
       ELSE IF ~is_junk_file(w.files[w.i])
         THEN /\ threads' = [threads EXCEPT ![t] = [w EXCEPT !.i = w.i + 1]]
              /\ UNCHANGED queue
         ELSE LET full_path == path_join(w.root, w.files[w.i]) IN
              \E ok \in {b \in BOOLEAN : b => full_path \in fs} :
                LET size == FileSize(full_path) IN
                IF ok
                  THEN Put(t, Msg("file", full_path, size, 0, t),
                           Matched(w, size))
                  ELSE /\ threads' = [threads EXCEPT ![t] = Skipped(w, full_path)]
                       /\ UNCHANGED queue
  /\ UNCHANGED << fnVars, fs, unremovable, abort_event, ctlVars >>

\* The statement after the loop: the done message.
PutDone(t) ==
  LET w == threads[t] IN
  /\ w.pc = "finish"
  /\ Put(t, Msg("done", "", w.total_size, w.file_count, t), [w EXCEPT !.pc = "exit"])
  /\ UNCHANGED << fnVars, fs, unremovable, abort_event, ctlVars >>

\* run() returns and the thread is no longer alive.
ThreadExit(t) ==
  /\ threads[t].pc = "exit"
  /\ threads' = [threads EXCEPT ![t] =
                   [@ EXCEPT !.pc = "dead", !.stack = << >>, !.total_size = 0,
                             !.file_count = 0, !.out = << >>,
                             !.skipped = {}]]
  /\ UNCHANGED << fnVars, fs, unremovable, abort_event, queue, ctlVars >>

----------------------------------------------------------------------------
\* CleanerApp.format_size
\*
\* A size in bytes is a sequence of digits to the base 1024, the highest
\* first and no leading 0 (<< >> is 0).  A number is a record of two such
\* sequences: int, the digits before the point, and frac, the digits after
\* the point.

RECURSIVE Digits(_)
\* The size n, a number of the model's file system, as digits
Digits(n) ==
  IF n = 0 THEN << >> ELSE Digits(n \div 1024) \o <<n % 1024>>

\* size < 1024.0
Below1024(x) == Len(x.int) <= 1

\* size /= 1024.0
Div1024(x) ==
  IF x.int = << >>
    THEN [int |-> << >>, frac |-> <<0>> \o x.frac]
    ELSE [int |-> SubSeq(x.int, 1, Len(x.int) - 1),
          frac |-> <<x.int[Len(x.int)]>> \o x.frac]

RECURSIVE IntVal(_)
\* The value of the digits before the point
IntVal(digits) ==
  IF digits = << >> THEN 0
  ELSE IntVal(SubSeq(digits, 1, Len(digits) - 1)) * 1024 + digits[Len(digits)]

RECURSIVE Times10(_)
\* Ten times the fraction frac: the part before the point (carry) and the
\* digits after it
Times10(frac) ==
  IF frac = << >> THEN [carry |-> 0, digits |-> << >>]
  ELSE LET r == Times10(Tail(frac))
           v == Head(frac) * 10 + r.carry
       IN [carry |-> v \div 1024, digits |-> <<v % 1024>> \o r.digits]

\* f"{size:.1f} {unit}": the number rounded to one decimal, as the record
\* of its digits before the point (a number), its one decimal and the
\* unit.  The fraction of a tenth that is left is a multiple of a power of
\* 1/2 and so never exactly a half of a tenth: it is rounded up from the
\* digit 512 on.
Fmt(x, unit) ==
  LET t == Times10(x.frac)
      up == t.digits # << >> /\ Head(t.digits) >= 512
      tenths == t.carry + (IF up THEN 1 ELSE 0)
  IN IF tenths = 10
       THEN [int |-> IntVal(x.int) + 1, tenths |-> 0, unit |-> unit]
       ELSE [int |-> IntVal(x.int), tenths |-> tenths, unit |-> unit]

\* The list the for statement goes through
units == << "B", "KB", "MB", "GB", "TB" >>

RECURSIVE format_size_from(_, _)
\* The loop from its k-th unit on, size being x; after the last unit the
\* return statement that follows the loop.
format_size_from(x, k) ==
  IF k > Len(units) THEN Fmt(x, "TB")
  ELSE IF Below1024(x) THEN Fmt(x, units[k])
  ELSE format_size_from(Div1024(x), k + 1)

format_size(size) == format_size_from([int |-> size, frac |-> << >>], 1)

----------------------------------------------------------------------------
\* The control thread: scanning

\* What status_var shows: the kind of message and the values put in it.
\* "scan" records which thread's message the text comes from, 0 for none.
Status(text, path, size, count, t) ==
  [text |-> text, path |-> path, size |-> size, count |-> count, scan |-> t]

\* The row check_scan_queue inserts for a "file" message: checked, with
\* the path and the formatted size (the time is left out).  "scan" records
\* the thread the message is from.
Row(m) ==
  [path |-> m.path, size |-> format_size(Digits(m.size)), checked |-> TRUE,
   scan |-> m.scan]

\* CleanerApp.update_clean_btn_state: the state it gives the Clean button.
update_clean_btn_state(rows) ==
  IF \E k \in 1..Len(rows) : rows[k].checked THEN "normal" ELSE "disabled"

\* scan_files past its first test: the abort event is cleared, the
\* buttons are disabled, the rows are deleted, a new thread is started
\* and the queue is polled 100 ms later.
start_scan ==
  /\ abort_event' = FALSE
  /\ scan_btn' = "disabled"
  /\ clean_btn' = "disabled"
  /\ tree' = << >>
  /\ threads' = Append(threads, NewThread)
  /\ scan_thread' = Len(threads) + 1
  /\ timers' = timers + 1
  /\ UNCHANGED scanIgnored

\* A mutant of scan_files: the test of the running thread is left out.
scan_files_Unguarded == start_scan

\* CleanerApp.scan_files
scan_files ==
  IF scan_thread # 0 /\ is_alive(scan_thread)
    THEN /\ scanIgnored' = TRUE
         /\ UNCHANGED << abort_event, scan_btn, clean_btn, tree, threads,
                         scan_thread, timers >>
    ELSE start_scan

\* A call of scan_files is allowed while the bound on threads permits the
\* thread it may start.
MayScan ==
  \/ scan_thread # 0 /\ is_alive(scan_thread)
  \/ Len(threads) < MaxScans

\* The timer set in __init__, root.after(100, self.scan_files), fires.
AutoScan ==
  /\ ~closed /\ cpc = "idle" /\ autoScan /\ MayScan
  /\ autoScan' = FALSE
  /\ scan_files
  /\ lastBatch' = << >>
  /\ UNCHANGED << fnVars, fs, unremovable, queue, status, cpc, closed >>

\* The user presses the Scan button, which calls scan_files.
ScanClick ==
  /\ ~closed /\ cpc = "idle" /\ scan_btn = "normal" /\ MayScan
  /\ scan_files
  /\ lastBatch' = << >>
  /\ UNCHANGED << fnVars, fs, unremovable, queue, status, autoScan, cpc, closed >>

RECURSIVE Drain(_, _, _)
\* The while loop of check_scan_queue on the queue q, with rows and st the
\* rows and the status text so far: it ends when get_nowait finds the
\* queue empty, or returns at an "abort" or "done" message.
Drain(q, rows, st) ==
  IF q = << >>
    THEN [queue |-> q, tree |-> rows, status |-> st, terminal |-> FALSE]
    ELSE LET m == Head(q) IN
      CASE m.type = "progress" ->
             Drain(Tail(q), rows, Status("Scanning", m.path, 0, 0, m.scan))
        [] m.type = "file" ->
             Drain(Tail(q), Append(rows, Row(m)), st)
        [] m.type = "abort" ->
             [queue |-> Tail(q), tree |-> rows,
              status |-> Status("Scan aborted", "", 0, 0, m.scan),
              terminal |-> TRUE]
        [] m.type = "done" ->
             [queue |-> Tail(q), tree |-> rows,
              status |-> Status("Scan completed", "", m.size, m.count, m.scan),
              terminal |-> TRUE]

\* A pending root.after(100, check_scan_queue) fires: the try block.
CheckScanQueue ==
  /\ ~closed /\ cpc = "idle" /\ timers > 0
  /\ LET r == Drain(queue, tree, status) IN
       /\ queue' = r.queue
       /\ tree' = r.tree
       /\ status' = r.status
       /\ timers' = timers - 1
       /\ IF r.terminal
            THEN /\ scan_btn' = "normal"
                 /\ clean_btn' = update_clean_btn_state(r.tree)
                 /\ cpc' = "idle"
            ELSE /\ cpc' = "alive"
                 /\ UNCHANGED << scan_btn, clean_btn >>
  /\ lastBatch' = << >>
  /\ UNCHANGED << fnVars, fs, unremovable, abort_event, threads, scan_thread,
                  autoScan, closed, scanIgnored >>

\* The except queue.Empty block of check_scan_queue: poll again if the
\* thread is still alive.
CheckAlive ==
  /\ cpc = "alive"
  /\ cpc' = "idle"
  /\ timers' = IF scan_thread # 0 /\ is_alive(scan_thread)
                 THEN timers + 1 ELSE timers
  /\ UNCHANGED << fnVars, fs, unremovable, abort_event, queue, threads, scan_thread,
                  tree, scan_btn, clean_btn, status, autoScan, closed,
                  scanIgnored, lastBatch >>

\* CleanerApp.handle_click on the check box of row k
handle_click(k) ==
  /\ ~closed /\ cpc = "idle"
  /\ k \in 1..Len(tree)
  /\ tree' = [tree EXCEPT ![k].checked = ~tree[k].checked]
  /\ clean_btn' = update_clean_btn_state(tree')
  /\ lastBatch' = << >>
  /\ UNCHANGED << fnVars, fs, unremovable, abort_event, queue, threads, scan_thread,
                  scan_btn, status, timers, autoScan, cpc, closed,
                  scanIgnored >>

\* CleanerApp.toggle_all, called by handle_click on the heading
toggle_all ==
  /\ ~closed /\ cpc = "idle"
  /\ tree # << >>
  /\ LET new_state == ~tree[1].checked IN
       tree' = [k \in 1..Len(tree) |-> [tree[k] EXCEPT !.checked = new_state]]
  /\ clean_btn' = update_clean_btn_state(tree')
  /\ lastBatch' = << >>
  /\ UNCHANGED << fnVars, fs, unremovable, abort_event, queue, threads, scan_thread,
                  scan_btn, status, timers, autoScan, cpc, closed,
                  scanIgnored >>

\* CleanerApp.on_closing: the abort event is set and the main loop quits.
\* The scan thread is not a daemon: it runs on after the main loop ended.
on_closing ==
  /\ ~closed /\ cpc = "idle"
  /\ abort_event' = TRUE
  /\ closed' = TRUE
  /\ threads' = [t \in 1..Len(threads) |->
                   [threads[t] EXCEPT !.walkingAtCancel =
                      @ \/ threads[t].pc \in {"check", "dirs", "files"}]]
  /\ lastBatch' = << >>
  /\ UNCHANGED << fnVars, fs, unremovable, queue, scan_thread, tree, scan_btn,
                  clean_btn, status, timers, autoScan, cpc, scanIgnored >>

----------------------------------------------------------------------------
\* The control thread: deleting

\* os.path.isfile(path)
isfile(path, files) == path \in files /\ ~IsDirPath(path)

\* path and everything below it
Subtree(path, files) == {p \in files : p = path \/ IsBelow(p, path)}

\* shutil.rmtree(path) returns without an error: the directory exists, the
\* file system refuses none of the removals, and nothing else goes wrong
\* (fault: an error that does not come back when the removal is retried).
rmtree_ok(path, files, unrem, fault) ==
  /\ path \in files
  /\ Subtree(path, files) \cap unrem = {}
  /\ ~fault

\* A mutant of rmdir_ok: the walk removes no sub-directory before it
\* tries the directory that holds it.
rmdir_ok_NoSubdirs(d, files, unrem) ==
  /\ d \in files
  /\ d \notin unrem
  /\ \A c \in files : Parent(c) # d

RECURSIVE rmdir_ok(_, _, _)
\* os.rmdir(d) succeeds in the bottom-up walk, files being what exists
\* after the walk has tried every file: d is removable and all that was in
\* it is gone, its sub-directories by the rmdir tried on them before.
rmdir_ok(d, files, unrem) ==
  /\ d \in files
  /\ d \notin unrem
  /\ \A c \in files : Parent(c) = d => (IsDirPath(c) /\ rmdir_ok(c, files, unrem))

\* The body of the for loop of clean_files for one path: what exists
\* afterwards and how the turn ended.  "deleted" is the turn that reaches
\* self.tree.delete(item); "partiallyDeleted" is the turn that sets
\* "Could not completely remove directory" and continues; "failed" is the
\* turn that sets "Error deleting" and continues.  Whatever rmtree removed
\* before it raised, the walk after it leaves the same entries.
delete_one(path, files, unrem, fault) ==
  IF isfile(path, files)
    THEN IF path \notin unrem
           THEN [fs |-> files \ {path}, outcome |-> "deleted"]
           ELSE [fs |-> files, outcome |-> "failed"]
    ELSE IF rmtree_ok(path, files, unrem, fault)
      THEN [fs |-> files \ Subtree(path, files), outcome |-> "deleted"]
      ELSE LET below == Subtree(path, files)
               fs1 == files \ {p \in below : ~IsDirPath(p) /\ p \notin unrem}
               gone == {d \in below : IsDirPath(d) /\ rmdir_ok(d, fs1, unrem)}
           IN [fs |-> fs1 \ gone,
               outcome |-> IF path \in gone THEN "deleted" ELSE "partiallyDeleted"]

\* What lastBatch keeps of one turn: the row, its path, the outcome, and
\* what the path was when the turn began.
Turn(k, path, files, unrem, fault, outcome) ==
  [item |-> k, path |-> path, outcome |-> outcome,
   kind |-> IF path \notin files THEN "missing"
            ELSE IF IsDirPath(path) THEN "dir" ELSE "file",
   unremSelf |-> path \in unrem,
   unremFile |-> \E p \in files : IsBelow(p, path) /\ ~IsDirPath(p) /\ p \in unrem,
   unremBelow |-> \E p \in files : IsBelow(p, path) /\ p \in unrem,
   hadFile |-> \E p \in files : IsBelow(p, path) /\ ~IsDirPath(p),
   hadSubdir |-> \E p \in files : IsBelow(p, path) /\ IsDirPath(p),
   fault |-> fault]

RECURSIVE RunBatch_StopsAtFailure(_, _, _, _)
\* A mutant of RunBatch: a turn that does not end "deleted" ends the loop.
RunBatch_StopsAtFailure(items, files, faults, turns) ==
  IF items = << >>
    THEN [fs |-> files, turns |-> turns]
    ELSE LET k == Head(items)
             path == tree[k].path
             r == delete_one(path, files, unremovable, k \in faults)
             done == Append(turns, Turn(k, path, files, unremovable,
                                        k \in faults, r.outcome))
         IN IF r.outcome = "deleted"
              THEN RunBatch_StopsAtFailure(Tail(items), r.fs, faults, done)
              ELSE [fs |-> r.fs, turns |-> done]

RECURSIVE RunBatch(_, _, _, _)
\* "for item in selected_items": items are the rows still to do, files
\* what exists, faults the rows whose rmtree meets a passing error, turns
\* the turns done.
RunBatch(items, files, faults, turns) ==
  IF items = << >>
    THEN [fs |-> files, turns |-> turns]
    ELSE LET k == Head(items)
             path == tree[k].path
             r == delete_one(path, files, unremovable, k \in faults)
         IN RunBatch(Tail(items), r.fs, faults,
                     Append(turns, Turn(k, path, files, unremovable,
                                        k \in faults, r.outcome)))

\* The rows of the tree that are checked, as clean_files collects them.
selected_items ==
  LET Checked(k) == tree[k].checked
  IN SelectSeq([k \in 1..Len(tree) |-> k], Checked)

\* A mutant of RowsAfter: the turn that could not remove the directory
\* goes on to self.tree.delete(item) as well.
RowsAfter_AlsoPartial(rows, turns) ==
  LET Kept(k) == \A n \in 1..Len(turns) :
                    turns[n].item = k => turns[n].outcome = "failed"
      kept == SelectSeq([k \in 1..Len(rows) |-> k], Kept)
  IN [n \in 1..Len(kept) |-> rows[kept[n]]]

\* The rows left after self.tree.delete(item) for the turns that reached it.
RowsAfter(rows, turns) ==
  LET Kept(k) == \A n \in 1..Len(turns) :
                    turns[n].item = k => turns[n].outcome # "deleted"
      kept == SelectSeq([k \in 1..Len(rows) |-> k], Kept)
  IN [n \in 1..Len(kept) |-> rows[kept[n]]]

RECURSIVE loop_status(_, _)
\* The status text when the for loop of clean_files has ended, st being
\* the text before: each turn that ended "partiallyDeleted" or "failed"
\* has set its own text.
loop_status(st, turns) ==
  IF turns = << >> THEN st
  ELSE LET t == Head(turns) IN
    loop_status(
      CASE t.outcome = "partiallyDeleted" ->
             Status("Could not completely remove directory", t.path, 0, 0, 0)
        [] t.outcome = "failed" ->
             Status("Error deleting", t.path, 0, 0, 0)
        [] OTHER -> st,
      Tail(turns))

\* The statement after the loop: self.status_var.set("Cleanup completed"),
\* whatever the text st the loop left.
cleanup_status(st) == Status("Cleanup completed", "", 0, 0, 0)

\* CleanerApp.clean_files, the user having pressed Clean and answered yes
\* (with no row checked, or on the answer no, it changes nothing).
clean_files ==
  /\ ~closed /\ cpc = "idle" /\ clean_btn = "normal"
  /\ selected_items # << >>
  /\ \E faults \in SUBSET {k \in 1..Len(tree) : tree[k].checked /\ IsDirPath(tree[k].path)} :
       LET r == RunBatch(selected_items, fs, faults, << >>) IN
         /\ fs' = r.fs
         /\ tree' = RowsAfter(tree, r.turns)
         /\ lastBatch' = r.turns
         /\ status' = cleanup_status(loop_status(status, r.turns))
  /\ clean_btn' = update_clean_btn_state(tree')
  /\ UNCHANGED << fnVars, unremovable, abort_event, queue, threads, scan_thread,
                  scan_btn, timers, autoScan, cpc, closed, scanIgnored >>

----------------------------------------------------------------------------
\* The program

\* The paths the file system may refuse to remove.
Protectable == {"a/docs/Caches", "a/docs/Caches/x.log"}

\* The program after CleanerApp.__init__: no thread, an empty queue and
\* tree, both buttons in their default state, the first scan scheduled.
Started ==
  /\ unremovable \in SUBSET (fs \cap Protectable)
  /\ abort_event = FALSE
  /\ queue = << >>
  /\ threads = << >>
  /\ scan_thread = 0
  /\ tree = << >>
  /\ scan_btn = "normal"
  /\ clean_btn = "normal"
  /\ status = Status("", "", 0, 0, 0)
  /\ timers = 0
  /\ autoScan = TRUE
  /\ cpc = "idle"
  /\ closed = FALSE
  /\ scanIgnored = FALSE
  /\ lastBatch = << >>

\* The program started on any tree of the universe
Init ==
  /\ fs \in {S \in SUBSET Universe : IsTree(S)}
  /\ Started
  /\ arg = << >>
  /\ ret = << >>

\* The steps of the scan threads
Workers ==
  \/ \E t \in 1..Len(threads) : RunStart(t)
  \/ \E t \in 1..Len(threads) : WalkNext(t)
  \/ \E t \in 1..Len(threads) : CheckAbort(t)
  \/ \E t \in 1..Len(threads) : ScanFolder(t)
  \/ \E t \in 1..Len(threads) : ScanFile(t)
  \/ \E t \in 1..Len(threads) : PutDone(t)
  \/ \E t \in 1..Len(threads) : ThreadExit(t)

\* The user starts scans and closes the window.
NextScan ==
  \/ Workers
  \/ AutoScan
  \/ ScanClick
  \/ CheckScanQueue
  \/ CheckAlive
  \/ on_closing

\* The user lets the first scan run, checks and unchecks rows, and deletes.
NextClean ==
  \/ Workers
  \/ AutoScan
  \/ CheckScanQueue
  \/ CheckAlive
  \/ \E k \in 1..Len(tree) : handle_click(k)
  \/ toggle_all
  \/ clean_files

Next == NextScan \/ NextClean

\* The whole program
Spec == Init /\ [][Next]_vars

\* The program where nothing is deleted (what the file system refuses to
\* remove is then never asked)
InitScan == Init /\ unremovable = {}

SpecScan == InitScan /\ [][NextScan]_vars

\* The program with its first scan only and a window that stays open
SpecClean == Init /\ [][NextClean]_vars

\* SpecScan where every step that is due is taken in the end: the
\* operating system lets each scan thread run, the Tk main loop fires the
\* timers of root.after and runs a handler it has begun to its end.  What
\* the user does (ScanClick, on_closing) stays as it pleases.
SpecScanFair ==
  /\ InitScan
  /\ [][NextScan]_vars
  /\ WF_vars(Workers)
  /\ WF_vars(AutoScan)
  /\ WF_vars(CheckScanQueue)
  /\ WF_vars(CheckAlive)

----------------------------------------------------------------------------
\* The test of the scan on a file name, taken by itself

\* What a file name begins with
Stems ==
  { << >>, <<"x">>, <<".">>, <<"x", ".">>, <<"R", "E", "A", "D", "M", "E">>,
    <<".", "D", "S", "_", "S", "t", "o", "r", "e">>,
    <<"T", "h", "u", "m", "b", "s", ".", "d", "b">>,
    <<".", "z", "c", "o", "m", "p", "d", "u", "m", "p", "-">>,
    <<".", "z", "c", "o", "m", "p", "d", "u", "m", "p">>,
    <<"x", ".", "z", "c", "o", "m", "p", "d", "u", "m", "p", "-">> }

\* What a file name ends with
Endings ==
  { << >>, <<"1">>, <<".">>, <<".", "l", "o", "g">>, <<".", "L", "O", "G">>,
    <<".", "t", "m", "p">>, <<".", "c", "a", "c", "h", "e">>,
    <<".", "l", "o", "g", "s">>, <<"l", "o", "g">>,
    <<".", "l", "o", "g", ".", "g", "z">>, <<".", "g", "z", ".", "l", "o", "g">> }

\* The file names is_junk_file is called with: a stem and an ending, not
\* both empty.
Filenames == {s \o e : s \in Stems, e \in Endings} \ {<< >>}

\* No program runs; a file name is about to be tested.
InitMatcher ==
  /\ fs = {}
  /\ Started
  /\ arg \in Filenames
  /\ ret = << >>

\* The condition of the if statement of "for file in files" is evaluated
\* on the name arg.
CallIsJunkFile ==
  /\ ret = << >>
  /\ ret' = << is_junk_file(arg) >>
  /\ UNCHANGED << arg, fs, unremovable, abort_event, queue, threads, ctlVars >>

SpecMatcher == InitMatcher /\ [][CallIsJunkFile]_vars

----------------------------------------------------------------------------
\* CleanerApp.format_size, taken by itself.  The sizes taken are below
\* 2^53, so that the float the code divides holds each of them, and each
\* quotient by 1024, exactly.

\* The longest size, in digits
MaxDigits == 6

\* The digits a size is made of
SizeDigits == {0, 1, 512, 1023}

RECURSIVE SeqsOver(_, _)
\* The sequences of n elements of D
SeqsOver(D, n) ==
  IF n = 0 THEN {<< >>}
  ELSE {<<d>> \o q : d \in D, q \in SeqsOver(D, n - 1)}

\* The sizes format_size is called with
Sizes ==
  {q \in UNION {SeqsOver(SizeDigits, n) : n \in 0..MaxDigits} :
     /\ q # << >> => q[1] # 0
     /\ Len(q) <= 5 \/ (Len(q) = 6 /\ q[1] < 8)}

\* No program runs; a size is about to be formatted.
InitFormat ==
  /\ fs = {}
  /\ Started
  /\ arg \in Sizes
  /\ ret = << >>

\* format_size is called with the size arg.
CallFormatSize ==
  /\ ret = << >>
  /\ ret' = << format_size(arg) >>
  /\ UNCHANGED << arg, fs, unremovable, abort_event, queue, threads, ctlVars >>

SpecFormat == InitFormat /\ [][CallFormatSize]_vars

----------------------------------------------------------------------------
\* The claims about the scan worker

Threads == 1..Len(threads)

\* The messages thread t has put so far
Out(t) == threads[t].out

\* Thread t has put its last message and run() is about to return.
Finished(t) == threads[t].pc = "exit"

RECURSIVE SumOfMatched(_)
\* The sum of the sizes of the "file" messages of a sequence of messages
SumOfMatched(msgs) ==
  IF msgs = << >> THEN 0
  ELSE (IF Head(msgs).type = "file" THEN Head(msgs).size ELSE 0)
         + SumOfMatched(Tail(msgs))

NumberOfMatched(msgs) ==
  Cardinality({n \in 1..Len(msgs) : msgs[n].type = "file"})

\* C1: a thread that has put a "file" message for a junk folder puts no
\* "file" or "progress" message for a path strictly below that folder.
C1_NoEventBelowJunkFolder ==
  \A t \in Threads : \A m, n \in 1..Len(Out(t)) :
    ( /\ Out(t)[m].type = "file"
      /\ is_junk_folder(Name(Out(t)[m].path))
      /\ IsDirPath(Out(t)[m].path)
      /\ Out(t)[n].type \in {"file", "progress"} )
    => ~IsBelow(Out(t)[n].path, Out(t)[m].path)

\* C2: in the messages of one thread no "done" message comes after an
\* "abort" message.
C2_NoDoneAfterAbort ==
  \A t \in Threads : \A m, n \in 1..Len(Out(t)) :
    (m < n /\ Out(t)[m].type = "abort") => Out(t)[n].type # "done"

\* C3: every "done" message carries the sum of the sizes and the number of
\* the "file" messages the same thread put before it.
C3_DoneTotals ==
  \A t \in Threads : \A n \in 1..Len(Out(t)) :
    Out(t)[n].type = "done" =>
      /\ Out(t)[n].size = SumOfMatched(SubSeq(Out(t), 1, n - 1))
      /\ Out(t)[n].count = NumberOfMatched(SubSeq(Out(t), 1, n - 1))

\* C3 witness: a scan that was not cancelled has put "done" after two or
\* more "file" messages, having skipped a junk entry it could not read.
C3_Witness ==
  \E t \in Threads :
    /\ Finished(t)
    /\ ~abort_event
    /\ NumberOfMatched(Out(t)) >= 2
    /\ SumOfMatched(Out(t)) > 0
    /\ "a/docs/.DS_Store" \in fs
    /\ \A n \in 1..Len(Out(t)) : Out(t)[n].path # "a/docs/.DS_Store"

\* The scan threads alive are at most one.
C4_AtMostOneAlive == Cardinality({t \in Threads : is_alive(t)}) <= 1

\* C4: at most one scan thread is alive, and a call of scan_files made
\* while the scan thread is alive changes neither the rows, the abort
\* event, the queue, the buttons, the status, the pending polls nor the
\* threads.
C4_IgnoredWhileAlive ==
  /\ []C4_AtMostOneAlive
  /\ [][ ((AutoScan \/ ScanClick) /\ scan_thread # 0 /\ is_alive(scan_thread))
           => UNCHANGED << fnVars, tree, abort_event, queue, scan_btn, clean_btn,
                           status, timers, threads, scan_thread >> ]_vars

\* C4 witness: a call of scan_files was ignored while the thread was at
\* work, rows were listed and messages were waiting.
C4_Witness ==
  /\ scanIgnored
  /\ scan_thread # 0 /\ is_alive(scan_thread)
  /\ tree # << >>
  /\ queue # << >>

\* C5: a thread that was inside a directory of the walk when the abort
\* event was set has put an "abort" message by the time it ends.
C5_AbortedAfterCancel ==
  \A t \in Threads :
    (Finished(t) /\ threads[t].walkingAtCancel) =>
      \E n \in 1..Len(Out(t)) : Out(t)[n].type = "abort"

\* C6: a thread whose run() began with the abort event set puts "abort" as
\* its first message and puts no "file" message.
C6_AbortedAtOnce ==
  \A t \in Threads :
    (Finished(t) /\ threads[t].preCancelled) =>
      /\ Out(t) # << >>
      /\ Out(t)[1].type = "abort"
      /\ NumberOfMatched(Out(t)) = 0

\* C7: when the scan path cannot be listed no thread puts a message and
\* the status never reports a completed scan.
C7_NoScanOfUnreadableRoot ==
  scan_path \notin fs =>
    /\ \A t \in Threads : Out(t) = << >>
    /\ status.text # "Scan completed"

----------------------------------------------------------------------------
\* The claims about deleting

Turns == 1..Len(lastBatch)

\* C8: clean_files removes a row exactly when the turn for it ended
\* "deleted"; the rows whose turn ended "partiallyDeleted" or "failed" and
\* the rows that were not checked stay, and every checked row has a turn.
C8_RemovedIffDeleted ==
  [][ clean_files =>
        LET Removed(k) == \A j \in 1..Len(tree') : tree'[j].path # tree[k].path
            turns == lastBatch'
        IN \A k \in 1..Len(tree) :
             /\ Removed(k) <=> \E n \in 1..Len(turns) :
                                  turns[n].item = k /\ turns[n].outcome = "deleted"
             /\ ~tree[k].checked => ~Removed(k)
             /\ tree[k].checked => \E n \in 1..Len(turns) : turns[n].item = k
    ]_vars

\* C8 witness: a batch has just ended with one turn "deleted" and another
\* "partiallyDeleted", the row of the latter and an unchecked row being
\* still listed.
C8_Witness ==
  /\ \E n \in Turns : lastBatch[n].outcome = "deleted"
  /\ \E n \in Turns :
       /\ lastBatch[n].outcome = "partiallyDeleted"
       /\ \E j \in 1..Len(tree) : tree[j].path = lastBatch[n].path
  /\ \E j \in 1..Len(tree) : ~tree[j].checked

\* C9 as stated: the turn for a directory ends "partiallyDeleted" when the
\* directory holds a file that cannot be removed, and "deleted" when
\* nothing below it is un-removable.
C9_DirectoryOutcome ==
  \A n \in Turns :
    lastBatch[n].kind = "dir" =>
      /\ lastBatch[n].unremFile => lastBatch[n].outcome = "partiallyDeleted"
      /\ ~lastBatch[n].unremBelow => lastBatch[n].outcome = "deleted"

\* C9 amended: the turn for a directory ends "partiallyDeleted" when the
\* directory holds a file that cannot be removed, and "deleted" when
\* neither the directory itself nor anything below it is un-removable,
\* also when rmtree failed and the bottom-up walk did the removing.
C9_DirectoryOutcomeAmended ==
  \A n \in Turns :
    lastBatch[n].kind = "dir" =>
      /\ lastBatch[n].unremFile => lastBatch[n].outcome = "partiallyDeleted"
      /\ (~lastBatch[n].unremBelow /\ ~lastBatch[n].unremSelf)
           => lastBatch[n].outcome = "deleted"

\* C9 witness: rmtree failed on a directory holding a file and a
\* sub-directory, nothing being un-removable, and the turn ended "deleted".
C9_Witness ==
  \E n \in Turns :
    /\ lastBatch[n].kind = "dir"
    /\ lastBatch[n].fault
    /\ lastBatch[n].hadFile /\ lastBatch[n].hadSubdir
    /\ ~lastBatch[n].unremBelow /\ ~lastBatch[n].unremSelf
    /\ lastBatch[n].outcome = "deleted"
    /\ lastBatch[n].path \notin fs

\* C10: the turn for a regular file that exists and can be removed ends
\* "deleted", and the turn for a path that does not exist ends "failed".
C10_FileAndMissingOutcome ==
  \A n \in Turns :
    /\ (lastBatch[n].kind = "file" /\ ~lastBatch[n].unremSelf)
         => lastBatch[n].outcome = "deleted"
    /\ lastBatch[n].kind = "missing" => lastBatch[n].outcome = "failed"

\* C11: clean_files makes one turn for every checked row, in the order
\* of the rows, whatever the outcomes of the turns before; a file that
\* exists and can be removed is gone after its turn also when an earlier
\* turn ended "partiallyDeleted" or "failed".
C11_EveryPathAttempted ==
  [][ clean_files =>
        /\ [n \in 1..Len(lastBatch') |-> lastBatch'[n].item] = selected_items
        /\ \A n \in 1..Len(lastBatch') :
             /\ lastBatch'[n].path = tree[lastBatch'[n].item].path
             /\ (lastBatch'[n].kind = "file" /\ ~lastBatch'[n].unremSelf)
                  => (lastBatch'[n].outcome = "deleted" /\ lastBatch'[n].path \notin fs')
    ]_vars

\* C11 witness: in the batch that has just ended a turn that ended
\* "partiallyDeleted" or "failed" is followed by a turn that ended
\* "deleted".
C11_Witness ==
  \E m, n \in Turns :
    /\ m < n
    /\ lastBatch[m].outcome \in {"partiallyDeleted", "failed"}
    /\ lastBatch[n].outcome = "deleted"
    /\ lastBatch[n].path \notin fs

\* C12: when a batch in which a turn ended "partiallyDeleted" or "failed"
\* has finished, the status text is the text of such a failure.
C12_FailureShown ==
  (\E n \in Turns : lastBatch[n].outcome \in {"partiallyDeleted", "failed"})
    => status.text \in {"Could not completely remove directory", "Error deleting"}

\* The places of the "file" messages of path p among msgs
MatchedAt(msgs, p) ==
  {n \in 1..Len(msgs) : msgs[n].type = "file" /\ msgs[n].path = p}

\* Thread t has listed directory d: it has put the progress message of d.
Visited(t, d) ==
  \E n \in 1..Len(Out(t)) : Out(t)[n].type = "progress" /\ Out(t)[n].path = d

\* The entries of directory d the rules call junk
JunkIn(d) ==
  {p \in fs : /\ Parent(p) = d
              /\ IF IsDirPath(p) THEN is_junk_folder(Name(p))
                                 ELSE is_junk_file(Name(p))}

\* Thread t has put "done" and was not cancelled before or inside a
\* directory.
Completed(t) ==
  /\ Finished(t)
  /\ ~threads[t].preCancelled /\ ~threads[t].walkingAtCancel
  /\ \A n \in 1..Len(Out(t)) : Out(t)[n].type # "abort"

\* C13: no thread puts two "file" messages with the same path and no two
\* rows of the tree have the same path; a thread that has completed
\* without a failed read has put exactly one "file" message for every junk
\* entry of every directory it listed.
C13_OneEventPerPath ==
  /\ \A t \in Threads : \A p \in Universe :
       Cardinality(MatchedAt(Out(t), p)) <= 1
  /\ \A m, n \in 1..Len(tree) : tree[m].path = tree[n].path => m = n
  /\ \A t \in Threads :
       (Completed(t) /\ threads[t].skipped = {}) =>
         \A d \in Universe : Visited(t, d) =>
           \A p \in JunkIn(d) : Cardinality(MatchedAt(Out(t), p)) = 1

\* C14: a junk entry whose size or time could not be read has no "file"
\* message and is not in the totals; the entries and directories after it
\* are scanned all the same, every other junk entry of a listed directory
\* having its message once the scan has completed, and the messages of the
\* thread end with "done".
C14_ReadFailureSkipsEntry ==
  \A t \in Threads :
    /\ \A p \in threads[t].skipped : MatchedAt(Out(t), p) = {}
    /\ threads[t].pc \notin {"start", "dead"} =>
         /\ threads[t].total_size = SumOfMatched(Out(t))
         /\ threads[t].file_count = NumberOfMatched(Out(t))
    /\ Completed(t) =>
         /\ Out(t)[Len(Out(t))].type = "done"
         /\ \A d \in Universe : Visited(t, d) =>
              \A p \in JunkIn(d) \ threads[t].skipped :
                Cardinality(MatchedAt(Out(t), p)) = 1
         /\ \A d \in fs : IsDirPath(d) => Visited(t, d)

\* C14 witness: a completed scan could not read the junk folder
\* a/docs/Caches, the first junk entry of a/docs, has put the "file"
\* message of a/docs/.DS_Store after that and has ended with a "done"
\* that does not count the folder.
C14_Witness ==
  \E t \in Threads :
    /\ Completed(t)
    /\ threads[t].skipped = {"a/docs/Caches"}
    /\ MatchedAt(Out(t), "a/docs/.DS_Store") # {}
    /\ Out(t)[Len(Out(t))].type = "done"
    /\ Out(t)[Len(Out(t))].count = NumberOfMatched(Out(t))
    /\ Out(t)[Len(Out(t))].size = 1

\* The text of name from its last "." to its end, empty without a "."
FromLastDot(name) ==
  IF rfind_dot(name) = 0 THEN << >>
  ELSE SubSeq(name, rfind_dot(name), Len(name))

\* C15: a file name is taken as junk exactly when it equals a string of
\* the rule set's names, or the pattern of the names matches it from its
\* start, or its text from the last "." on is one of the extensions -- a
\* name such as ".log", whose only "." is its first character, included.
C15_JunkIffRuleMatches ==
  ret # << >> =>
    ( ret[1] <=>
        \/ \E k \in 1..Len(junk_names) :
             junk_names[k].kind = "str" /\ junk_names[k].text = arg
        \/ \E k \in 1..Len(junk_names) :
             junk_names[k].kind = "re" /\ re_match(junk_names[k].text, arg)
        \/ FromLastDot(arg) \in junk_extensions )

\* The number size / 1024^k
Shifted(size, k) ==
  [int |-> SubSeq(size, 1, Len(size) - k),
   frac |-> SubSeq(size, Len(size) - k + 1, Len(size))]

\* C16: a size of 1024^4 or more is shown as size / 1024^4 with the unit
\* TB, so 1024^4 as "1.0 TB" and 1024^5 as "1024.0 TB"; a smaller size is
\* shown as size / 1024^k with the k-th of the units KB, MB, GB for the k
\* that leaves a number from 1 to below 1024, and in B when it is below
\* 1024.
C16_SizeShownWithUnit ==
  ret # << >> =>
    /\ Len(arg) >= 5 => ret[1] = Fmt(Shifted(arg, 4), "TB")
    /\ Len(arg) <= 4 =>
         LET k == IF arg = << >> THEN 0 ELSE Len(arg) - 1
         IN ret[1] = Fmt(Shifted(arg, k), units[k + 1])
    /\ arg = <<1, 0, 0, 0, 0>> => ret[1] = [int |-> 1, tenths |-> 0, unit |-> "TB"]
    /\ arg = <<1, 0, 0, 0, 0, 0>> =>
         ret[1] = [int |-> 1024, tenths |-> 0, unit |-> "TB"]

\* The "done" or "abort" message of thread t has been applied by
\* check_scan_queue, which has enabled the Scan button.
Applied(t) ==
  /\ status.scan = t
  /\ status.text \in {"Scan completed", "Scan aborted"}
  /\ scan_btn = "normal"

\* C17: unless the window is closed, every scan thread that was started
\* has in the end its "done" or "abort" message applied by
\* check_scan_queue and the Scan button enabled again.
C17_ScanReturnsToIdle ==
  \A t \in 1..MaxScans :
    (Len(threads) >= t) ~> (closed \/ Applied(t))

\* C18: from the start of a scan until check_scan_queue has applied its
\* "done" or "abort" message (the time the Scan button is disabled) the
\* Clean button is disabled, whatever rows the user has checked or
\* unchecked meanwhile; and clean_files never runs while the scan thread
\* is alive.
C18_CleanDisabledWhileScanning ==
  /\ [](scan_btn = "disabled" => clean_btn = "disabled")
  /\ [][clean_files => ~(scan_thread # 0 /\ is_alive(scan_thread))]_vars

\* C19: the queue holds messages of the thread started last only, so
\* none of an earlier scan when a scan starts; the rows of the tree, which
\* scan_files cleared, and every status text check_scan_queue sets come
\* from messages of the thread started last.
C19_OnlyEventsOfCurrentScan ==
  /\ [](\A n \in 1..Len(queue) : queue[n].scan = scan_thread)
  /\ [](\A k \in 1..Len(tree) : tree[k].scan = scan_thread)
  /\ [][(CheckScanQueue /\ status' # status) => status'.scan = scan_thread]_vars

====
